---------------------------- MODULE Spec2Model ----------------------------
(***************************************************************************)
(* Sales Order Entry Automation (src/App.py): a Streamlit script that is   *)
(* re-executed top to bottom after every user interaction.  The state is   *)
(* st.session_state, the state of the widgets that persist between runs,   *)
(* the SQLite table order_matches, and the HTTP exchange of the last run.  *)
(* Every action below is one user interaction followed by ONE complete     *)
(* run of the script (Upload tab, Extract tab, Match tab, write-back).     *)
(***************************************************************************)
EXTENDS Integers, Sequences, FiniteSets, TLC

VARIABLES
    uploader,           \* value of st.file_uploader: NoFile or [name, bytes]
    pdf_bytes,          \* st.session_state.pdf_bytes (Absent | bytes)
    uploaded_filename,  \* st.session_state.uploaded_filename (Absent | name)
    po_fields,          \* st.session_state.po_fields: ordered dict, seq of [name, value]
    df,                 \* st.session_state.df: NoDf or a table
    matches,            \* st.session_state.matches: NoMatches or [has, lists]
    sel,                \* state of the selectboxes match_0.. : chosen option position
    db,                 \* orders.db, table order_matches
    req,                \* HTTP request sent by the last run (NoReq if none)
    resp,               \* body of its response when it was a success (NoResp otherwise)
    clicked,            \* the button that returned True in the last run
    msg,                \* the st.success / st.error message the last run showed
    preview             \* st.dataframe(preview) shown by the last run

vars == <<uploader, pdf_bytes, uploaded_filename, po_fields, df, matches, sel,
          db, req, resp, clicked, msg, preview>>

----------------------------------------------------------------------------
(* Bounds of the model *)
MaxRows == 2        \* rows (and index labels 0..MaxRows-1) of the line-item table
MaxFields == 6      \* purchase-order fields
MaxDb == 6          \* rows of order_matches

(* Program constants *)
MatchLimit == 5     \* params = {"limit": 5}
PreviewLimit == 5   \* ... ORDER BY rowid DESC LIMIT 5

Absent == "<absent>"
NA == "<NA>"                    \* pandas missing value (NaN / None)
NULL == "<NULL>"                \* SQL NULL
MatchedItem == "Matched Item"
RequestItem == "Request Item"

NoFile == [has |-> FALSE]
NoDf == [has |-> FALSE]
NoMatches == [has |-> FALSE]
NoReq == [to |-> "none"]
NoResp == [has |-> FALSE]
NoPreview == [has |-> FALSE]

----------------------------------------------------------------------------
(* Inputs the user and the two services can supply *)

Files == { [has |-> TRUE, name |-> "a.pdf", bytes |-> "PDF-A"],
           [has |-> TRUE, name |-> "empty.pdf", bytes |-> ""] }

\* A JSON object is a sequence of <<key, value>> pairs, a JSON array a sequence.
Items1 == << << <<RequestItem, "a">> >>, << <<RequestItem, "b">> >> >>
Items2 == << << <<"Desc", "b">>, <<RequestItem, "a">> >> >>
Items3 == << << <<"Desc", "a">>, <<MatchedItem, "m">> >> >>
Items4 == << >>
ExtractBodies == {Items1, Items2, Items3, Items4}

\* A JSON object of the matching service: description -> candidates
Dict1 == ("a" :> <<"x", "y">>) @@ ("nan" :> <<"z">>)
Dict2 == << >>
MatchBodies == {Dict1, Dict2}

\* TransportError, RemoteError (raise_for_status), FormatError (res.json)
FailKinds == {"TransportError", "RemoteError", "FormatError"}

EditVals == {"b"}
FieldVals == {"", "v"}

----------------------------------------------------------------------------
(* pandas / Streamlit helpers, as the script uses them *)

Has(s, x) == \E i \in 1..Len(s) : s[i] = x
Range(s) == {s[i] : i \in 1..Len(s)}

\* df[col].astype(str): a missing value becomes the string "nan"
Str(v) == IF v = NA THEN "nan" ELSE v

RECURSIVE AppendNew(_, _)
AppendNew(cols, obj) ==
    IF obj = << >> THEN cols
    ELSE AppendNew(IF Has(cols, Head(obj)[1]) THEN cols ELSE Append(cols, Head(obj)[1]),
                   Tail(obj))

RECURSIVE ColumnsOf(_, _)
ColumnsOf(items, cols) ==
    IF items = << >> THEN cols
    ELSE ColumnsOf(Tail(items), AppendNew(cols, Head(items)))

ObjGet(obj, k) ==
    IF \E i \in 1..Len(obj) : obj[i][1] = k
    THEN obj[CHOOSE i \in 1..Len(obj) : obj[i][1] = k][2]
    ELSE NA

\* pd.DataFrame(items): columns are the keys in order of first appearance, a
\* missing key is NaN, the index is RangeIndex(0..n-1)
DataFrame(items) ==
    LET cols == ColumnsOf(items, << >>) IN
    [has |-> TRUE, cols |-> cols,
     rows |-> [p \in 1..Len(items) |->
                 [idx |-> p - 1,
                  c |-> [k \in Range(cols) |-> ObjGet(items[p], k)]]]]

Labels(d) == {d.rows[p].idx : p \in 1..Len(d.rows)}
PosOf(d, i) == CHOOSE p \in 1..Len(d.rows) : d.rows[p].idx = i
IsRangeIndex(d) == \A p \in 1..Len(d.rows) : d.rows[p].idx = p - 1
EmptyRow(d, i) == [idx |-> i, c |-> [k \in Range(d.cols) |-> NA]]

RemoveAt(s, p) == [q \in 1..(Len(s) - 1) |-> IF q < p THEN s[q] ELSE s[q + 1]]

\* st.data_editor(df, num_rows="dynamic") with the user's edit e applied:
\* a cell edit, a row deletion (df.drop(df.index[pos]), index not reset) or a
\* row addition (df.loc[label, :] = new_row; label is index.stop for a
\* RangeIndex and typed in by the user otherwise; an existing label is
\* overwritten).  The widget's identity covers its input data, so an edit is
\* applied in the run it triggers and not again once the stored table changed.
DataEditor(d, e) ==
    CASE e.kind = "none" -> d
      [] e.kind = "cell" -> [d EXCEPT !.rows[e.pos].c[e.col] = e.v]
      [] e.kind = "del"  -> [d EXCEPT !.rows = RemoveAt(@, e.pos)]
      [] e.kind = "add"  ->
            IF e.label \in Labels(d)
            THEN [d EXCEPT !.rows[PosOf(d, e.label)] = EmptyRow(d, e.label)]
            ELSE [d EXCEPT !.rows = Append(@, EmptyRow(d, e.label))]

\* faulty variant of EnsureMatched: the column is reset without the test of line 93
EnsureMatchedAlways(d) ==
    [has |-> TRUE,
     cols |-> IF Has(d.cols, MatchedItem) THEN d.cols ELSE Append(d.cols, MatchedItem),
     rows |-> [p \in 1..Len(d.rows) |->
                 [idx |-> d.rows[p].idx,
                  c |-> [k \in Range(d.cols) \cup {MatchedItem} |->
                           IF k = MatchedItem THEN "" ELSE d.rows[p].c[k]]]]]

\* lines 93-94: if "Matched Item" not in df.columns: df["Matched Item"] = ""
EnsureMatched(d) ==
    IF Has(d.cols, MatchedItem) THEN d
    ELSE [has |-> TRUE, cols |-> Append(d.cols, MatchedItem),
          rows |-> [p \in 1..Len(d.rows) |->
                      [idx |-> d.rows[p].idx,
                       c |-> [k \in Range(d.cols) \cup {MatchedItem} |->
                                IF k = MatchedItem THEN "" ELSE d.rows[p].c[k]]]]]

\* faulty variant of DescCol: always the first column
DescColFirst(d) == d.cols[1]

\* line 99
DescCol(d) == IF Has(d.cols, RequestItem) THEN RequestItem ELSE d.cols[1]
\* line 100: df[desc_col].astype(str).tolist()
DescList(d) == [p \in 1..Len(d.rows) |-> Str(d.rows[p].c[DescCol(d)])]
\* matches_dict.get(desc, [])
DictGet(dict, k) == IF k \in DOMAIN dict THEN dict[k] ELSE << >>
\* line 108
MatchLists(dict, descs) == [p \in 1..Len(descs) |-> DictGet(dict, descs[p])]

\* line 120: options if options else [""]
Options(o) == IF o = << >> THEN <<"">> ELSE o
\* st.selectbox returns the option at the widget's stored position
Selectbox(o, k) == Options(o)[k]

\* df.at[i, col] = v : sets the cell of the row LABELLED i; a missing label
\* is appended as a new row (setting with enlargement), other cells NaN
SetAt(d, i, col, v) ==
    IF i \in Labels(d)
    THEN [d EXCEPT !.rows[PosOf(d, i)].c[col] = v]
    ELSE [d EXCEPT !.rows = Append(@, [idx |-> i,
                                        c |-> [k \in Range(d.cols) |->
                                                 IF k = col THEN v ELSE NA]])]

\* lines 116-122: for i, options in enumerate(matches): df.at[i, ...] = selectbox
RECURSIVE SelectLoop(_, _, _, _)
SelectLoop(d, ms, sl, i) ==
    IF i > Len(ms) THEN d
    ELSE SelectLoop(SetAt(d, i - 1, MatchedItem, Selectbox(ms[i], sl[i])), ms, sl, i + 1)

\* the selectbox widgets keep their position while their options are the same
\* and fall back to the first option otherwise
KeepSel(old, sl, new) ==
    [p \in 1..Len(new) |->
        IF old.has /\ p <= Len(old.lists) /\ old.lists[p] = new[p] THEN sl[p] ELSE 1]

----------------------------------------------------------------------------
(* SQLite through pandas *)

SqlVal(v) == IF v = NA THEN NULL ELSE v
PyVal(v) == IF v = NULL THEN NA ELSE v

NoTable == [exists |-> FALSE, cols |-> << >>, rows |-> << >>]

\* df.to_sql("order_matches", if_exists="append", index=False) can insert
SchemaOk(store, d) == ~store.exists \/ d.rows = << >> \/ Range(d.cols) \subseteq Range(store.cols)

ToSql(store, d) ==
    LET cols == IF store.exists THEN store.cols ELSE d.cols IN
    [exists |-> TRUE, cols |-> cols,
     rows |-> store.rows \o
              [p \in 1..Len(d.rows) |->
                 [k \in Range(cols) |->
                    IF k \in Range(d.cols) THEN SqlVal(d.rows[p].c[k]) ELSE NULL]]]

Min(a, b) == IF a < b THEN a ELSE b

\* faulty variant of ReadRecent: ORDER BY rowid ASC
ReadOldest(store, n) ==
    [q \in 1..Min(n, Len(store.rows)) |->
        [k \in Range(store.cols) |-> PyVal(store.rows[q][k])]]

\* SELECT * FROM order_matches ORDER BY rowid DESC LIMIT 5
ReadRecent(store, n) ==
    [q \in 1..Min(n, Len(store.rows)) |->
        [k \in Range(store.cols) |-> PyVal(store.rows[Len(store.rows) + 1 - q][k])]]

----------------------------------------------------------------------------
(* Purchase-order fields: an insertion-ordered dict *)

DefaultFields == << [name |-> "Request ID", value |-> ""],
                    [name |-> "Delivery Address", value |-> ""],
                    [name |-> "PO Date", value |-> ""],
                    [name |-> "PO Number", value |-> ""] >>

FieldNames(po) == {po[i].name : i \in 1..Len(po)}

\* po_fields[name] = value
DictSet(po, name, value) ==
    IF name \in FieldNames(po)
    THEN [i \in 1..Len(po) |-> IF po[i].name = name THEN [name |-> name, value |-> value]
                                                    ELSE po[i]]
    ELSE Append(po, [name |-> name, value |-> value])

\* line 43
add_field(po) == DictSet(po, "Field " \o ToString(Len(po) + 1), "")
\* faulty variant of clear_fields: back to the four fixed fields
clear_fields_resets(po) == DefaultFields

\* line 46
clear_fields(po) == << >>

----------------------------------------------------------------------------
(* The script *)

\* faulty variant of ExtractGate: the bytes are not tested
ExtractGateNameOnly(pdf, fname) == fname # Absent

\* line 62: st.session_state.get("pdf_bytes") and "uploaded_filename" in st.session_state
ExtractGate(pdf, fname) == pdf # Absent /\ pdf # "" /\ fname # Absent
\* line 88: "df" in st.session_state
MatchGate(d) == d.has

\* faulty variant of UploadTab: a stored filename is not replaced
UploadTabKeepsName(up, pdf, fname) ==
    IF up.has THEN [pdf |-> up.bytes, fname |-> IF fname = Absent THEN up.name ELSE fname]
    ELSE [pdf |-> pdf, fname |-> fname]

\* lines 25-31: an uploaded file is stored in the session; nothing else is touched
UploadTab(up, pdf, fname) ==
    IF up.has THEN [pdf |-> up.bytes, fname |-> up.name]
    ELSE [pdf |-> pdf, fname |-> fname]

\* faulty variant of Extraction: a failure stores an empty table
ExtractionClears(d, r) == IF r.kind = "ok" THEN DataFrame(r.body) ELSE DataFrame(<< >>)

\* lines 68-75: the table after the Generate Extraction button; an exception
\* (requests.post, raise_for_status, res.json) skips the assignment of line 72
Extraction(d, r) == IF r.kind = "ok" THEN DataFrame(r.body) ELSE d

\* faulty variant of Mapping: a failure stores empty candidate lists
MappingResets(m, d, r) ==
    IF r.kind = "ok" THEN [has |-> TRUE, lists |-> MatchLists(r.body, DescList(d))]
    ELSE [has |-> TRUE, lists |-> [p \in 1..Len(d.rows) |-> << >>]]

\* lines 99-112: the candidate lists after the Generate Mapping button; an
\* exception skips the assignment of line 109
Mapping(m, d, r) ==
    IF r.kind = "ok" THEN [has |-> TRUE, lists |-> MatchLists(r.body, DescList(d))]
    ELSE m

\* lines 115-122
Selection(d, m, sl) == IF m.has THEN SelectLoop(d, m.lists, sl, 1) ELSE d

\* lines 73, 75, 110, 112, 129, 136
Message(btn, ok) ==
    CASE btn = "extract" -> IF ok THEN "Extraction successful!" ELSE "Extraction failed"
      [] btn = "match"   -> IF ok THEN "Matching complete!" ELSE "Matching failed"
      [] btn = "save"    -> IF ok THEN "Saved to orders.db" ELSE "Saving to database failed"
      [] OTHER           -> ""

NoEdit == [kind |-> "none"]
NoR == [kind |-> "none"]

\* One execution of the script.  up: the file uploader's value; po: the
\* purchase-order fields after the callback and the text inputs; click: the
\* button pressed; edit: the grid edit; sl: the selectboxes' state; r: the
\* answer of the service called; io: the outcome of the storage layer.
Script(up, po, click, edit, sl, r, io) ==
    LET doc   == UploadTab(up, pdf_bytes, uploaded_filename)
        xgate == ExtractGate(doc.pdf, doc.fname)
        sendX == xgate /\ click = "extract"
        df1   == IF sendX THEN Extraction(df, r) ELSE df
        df2   == IF df1.has THEN DataEditor(df1, edit) ELSE df1
        mgate == MatchGate(df2)
        d0    == IF mgate THEN EnsureMatched(df2) ELSE df2
        sendM == mgate /\ click = "match"
        m1    == IF sendM THEN Mapping(matches, d0, r) ELSE matches
        sl1   == IF m1.has /\ m1 # matches THEN KeepSel(matches, sl, m1.lists) ELSE sl
        d1    == IF mgate THEN Selection(d0, m1, sl1) ELSE d0
        save  == mgate /\ click = "save"
        wrote == save /\ io \in {"ok", "read_fails"} /\ SchemaOk(db, d1)
        saved == wrote /\ io = "ok"
        btn   == IF \/ sendX \/ sendM \/ save
                    \/ mgate /\ click = "download"
                    \/ click \in {"add_field", "clear_fields"}
                 THEN click ELSE "none"
        ok    == IF sendX \/ sendM THEN r.kind = "ok" ELSE saved
    IN  /\ uploader' = up
        /\ pdf_bytes' = doc.pdf
        /\ uploaded_filename' = doc.fname
        /\ po_fields' = po
        /\ df' = d1
        /\ matches' = m1
        /\ sel' = sl1
        /\ db' = IF wrote THEN ToSql(db, d1) ELSE db
        /\ preview' = IF saved
                      THEN [has |-> TRUE, rows |-> ReadRecent(ToSql(db, d1), PreviewLimit)]
                      ELSE NoPreview
        /\ req' = IF sendX THEN [to |-> "extract", name |-> doc.fname, bytes |-> doc.pdf]
                  ELSE IF sendM THEN [to |-> "match", queries |-> DescList(d0),
                                      limit |-> MatchLimit]
                  ELSE NoReq
        /\ resp' = IF (sendX \/ sendM) /\ r.kind = "ok" THEN [has |-> TRUE, body |-> r.body]
                   ELSE NoResp
        /\ clicked' = btn
        /\ msg' = Message(btn, ok)

\* the state after the first run of a fresh session (lines 34-40 set po_fields)
Init ==
    /\ uploader = NoFile
    /\ pdf_bytes = Absent
    /\ uploaded_filename = Absent
    /\ po_fields = DefaultFields
    /\ df = NoDf
    /\ matches = NoMatches
    /\ sel = << >>
    /\ db = NoTable
    /\ req = NoReq
    /\ resp = NoResp
    /\ clicked = "none"
    /\ msg = ""
    /\ preview = NoPreview

----------------------------------------------------------------------------
(* User interactions; each re-runs the script *)

\* line 24: a file is dropped on the uploader
Upload ==
    \E f \in Files :
        /\ f # uploader
        /\ Script(f, po_fields, "none", NoEdit, sel, NoR, "none")

\* line 24: the file is removed from the uploader (the session keeps the document)
RemoveUpload ==
    /\ uploader.has
    /\ Script(NoFile, po_fields, "none", NoEdit, sel, NoR, "none")

\* line 55: on_click=add_field
AddField ==
    /\ Len(po_fields) < MaxFields
    /\ Script(uploader, add_field(po_fields), "add_field", NoEdit, sel, NoR, "none")

\* line 56: on_click=clear_fields
ClearFields ==
    /\ Script(uploader, clear_fields(po_fields), "clear_fields", NoEdit, sel, NoR, "none")

\* lines 49-53: a text input is edited
EditField ==
    \E i \in 1..Len(po_fields), v \in FieldVals :
        /\ po_fields[i].value # v
        /\ Script(uploader, DictSet(po_fields, po_fields[i].name, v),
                  "none", NoEdit, sel, NoR, "none")

\* line 63: the button exists only behind the gate of line 62
GenerateExtraction ==
    /\ ExtractGate(pdf_bytes, uploaded_filename)
    /\ \E r \in [kind : {"ok"}, body : ExtractBodies] \cup [kind : FailKinds] :
          Script(uploader, po_fields, "extract", NoEdit, sel, r, "none")

\* lines 77-82: the grid exists once a table does.  Cells edited: the
\* description column and the Matched Item column.
EditCell ==
    /\ df.has
    /\ \E p \in 1..Len(df.rows), k \in {DescCol(df), MatchedItem}, v \in EditVals :
          /\ df.rows[p].c[k] # v
          /\ Script(uploader, po_fields, "none",
                    [kind |-> "cell", pos |-> p, col |-> k, v |-> v], sel, NoR, "none")

DeleteRow ==
    /\ df.has
    /\ \E p \in 1..Len(df.rows) :
          Script(uploader, po_fields, "none", [kind |-> "del", pos |-> p], sel, NoR, "none")

AddRow ==
    /\ df.has
    /\ Len(df.rows) < MaxRows
    /\ \E l \in 0..(MaxRows - 1) :
          /\ IsRangeIndex(df) => l = Len(df.rows)
          /\ Script(uploader, po_fields, "none", [kind |-> "add", label |-> l], sel, NoR,
                    "none")

\* line 97: the button exists only in the else branch of line 88
GenerateMapping ==
    /\ MatchGate(df)
    /\ \E r \in [kind : {"ok"}, body : MatchBodies] \cup [kind : FailKinds] :
          Script(uploader, po_fields, "match", NoEdit, sel, r, "none")

\* lines 118-122: another option is picked in selectbox match_i
Select ==
    /\ MatchGate(df) /\ matches.has
    /\ \E i \in 1..Len(matches.lists) :
          \E k \in 1..Len(Options(matches.lists[i])) :
             /\ k # sel[i]
             /\ Script(uploader, po_fields, "none", NoEdit, [sel EXCEPT ![i] = k], NoR,
                       "none")

\* line 125
ConfirmSave ==
    /\ MatchGate(df)
    /\ Len(db.rows) + Len(df.rows) <= MaxDb
    /\ \E io \in {"ok", "append_fails", "read_fails"} :
          Script(uploader, po_fields, "save", NoEdit, sel, NoR, io)

\* line 140
Download ==
    /\ MatchGate(df)
    /\ Script(uploader, po_fields, "download", NoEdit, sel, NoR, "none")

\* The pipeline: upload, extraction, the grid, matching, selection
Next ==
    \/ Upload
    \/ GenerateExtraction
    \/ EditCell
    \/ DeleteRow
    \/ AddRow
    \/ GenerateMapping
    \/ Select
    \/ Download

Spec == Init /\ [][Next]_vars

\* Persistence: documents, extraction, added rows and saving
NextSave ==
    \/ Upload
    \/ RemoveUpload
    \/ GenerateExtraction
    \/ AddRow
    \/ ConfirmSave
    \/ Download

SpecSave == Init /\ [][NextSave]_vars

\* Confirm & Save into a store that holds no table yet
FirstSave == ConfirmSave /\ ~db.exists

\* The gates: every button, no grid edit, one save
NextGate ==
    \/ Upload
    \/ RemoveUpload
    \/ GenerateExtraction
    \/ GenerateMapping
    \/ Select
    \/ FirstSave
    \/ Download

SpecGate == Init /\ [][NextGate]_vars

\* The purchase-order form
NextFields ==
    \/ AddField
    \/ ClearFields
    \/ EditField

SpecFields == Init /\ [][NextFields]_vars

----------------------------------------------------------------------------
(* Properties *)

\* The steps of a run, told from what it leaves behind
ExtractFailed == req'.to = "extract" /\ ~resp'.has
ExtractSucceeded == req'.to = "extract" /\ resp'.has
MatchFailed == req'.to = "match" /\ ~resp'.has
MatchSucceeded == req'.to = "match" /\ resp'.has
Selected == matches.has /\ matches' = matches /\ sel' # sel
Uploaded == uploader'.has /\ uploader' # uploader

\* the description of the row at position p: the value in the "Request Item"
\* column if there is one, else in the first column, as a string
Description(d, p) ==
    LET col == IF RequestItem \in Range(d.cols) THEN RequestItem ELSE Head(d.cols)
        v   == d.rows[p].c[col]
    IN  IF v = NA THEN "nan" ELSE v

\* C1: after a successful Generate Mapping on a table of N rows the stored
\* candidate list has length N, and entry i is the response's list for the
\* description of row i ("Request Item" column if present, else the first
\* column), or the empty list when the description is no key of the response.
C1_MatchAligned ==
    [][MatchSucceeded =>
         /\ matches'.has
         /\ Len(matches'.lists) = Len(df.rows)
         /\ \A p \in 1..Len(df.rows) :
               matches'.lists[p] =
                  IF Description(df, p) \in DOMAIN resp'.body
                  THEN resp'.body[Description(df, p)] ELSE << >>]_vars

\* a successful match on a table whose first column is not "Request Item"
C1_Witness ==
    /\ req.to = "match" /\ resp.has /\ matches.has
    /\ df.cols[1] = "Desc" /\ RequestItem \in Range(df.cols)
    /\ Len(matches.lists) >= 1
    /\ matches.lists[1] = <<"x", "y">>

\* C2: a failed extraction shows an error and leaves the stored table as it
\* was at the end of the run: the same table, or still absent.
C2_FailedExtractionKeepsTable ==
    [][ExtractFailed => df' = df /\ msg' = "Extraction failed"]_vars

\* a failed extraction over a table with rows and stale candidate lists
C2_Witness ==
    /\ req.to = "extract" /\ ~resp.has /\ msg = "Extraction failed"
    /\ df.has /\ df.rows # << >>
    /\ matches.has /\ ~IsRangeIndex(df)

\* C3: selecting a candidate for row i writes that value into the Matched Item
\* cell of row i and changes no other cell of the table.
C3_SelectWritesOnlyRow ==
    [][Selected =>
         \A i \in 1..Len(matches.lists) :
            sel'[i] # sel[i] =>
               /\ Len(df'.rows) = Len(df.rows)
               /\ i <= Len(df.rows)
               /\ df'.rows[i].c[MatchedItem] = Options(matches.lists[i])[sel'[i]]
               /\ \A j \in 1..Len(df.rows) :
                     /\ df'.rows[j].idx = df.rows[j].idx
                     /\ \A k \in Range(df.cols) :
                           (j # i \/ k # MatchedItem) =>
                               df'.rows[j].c[k] = df.rows[j].c[k]]_vars

\* C4: stage gating.  Generate Extraction fires only with a document in the
\* session and its request carries that document; Generate Mapping, Confirm &
\* Save and Download fire only with a table in the session; no matching
\* request and no database append happens without a table.
C4_StageGating ==
    [][/\ clicked' = "extract" =>
             /\ pdf_bytes # Absent /\ pdf_bytes # "" /\ uploaded_filename # Absent
             /\ pdf_bytes' = pdf_bytes /\ uploaded_filename' = uploaded_filename
       /\ req'.to = "extract" =>
             /\ clicked' = "extract"
             /\ req'.bytes = pdf_bytes /\ req'.name = uploaded_filename
       /\ clicked' \in {"match", "save", "download"} => df.has /\ df'.has
       /\ req'.to = "match" => clicked' = "match" /\ df.has
       /\ db' # db => clicked' = "save" /\ df.has]_vars

\* an extraction requested after the file was removed from the uploader
C4_Witness ==
    /\ ~uploader.has
    /\ clicked = "extract" /\ req.to = "extract" /\ req.bytes = "PDF-A"
    /\ db.exists

\* C5: a failed Generate Mapping shows an error and leaves the candidate lists
\* as they were: still absent, or the lists stored before.
C5_FailedMappingKeepsMatches ==
    [][MatchFailed => matches' = matches /\ sel' = sel /\ msg' = "Matching failed"]_vars

\* a failed mapping with candidate lists stored before
C5_Witness ==
    /\ req.to = "match" /\ ~resp.has /\ msg = "Matching failed"
    /\ matches.has /\ \E p \in 1..Len(matches.lists) : matches.lists[p] # << >>

\* C6: the field names are pairwise distinct; add-field appends one field,
\* named "Field N" with a name not in the set, and keeps the fields before it
\* in order; clear-all leaves no field.
C6_Fields ==
    [][/\ \A i, j \in 1..Len(po_fields') :
             po_fields'[i].name = po_fields'[j].name => i = j
       /\ clicked' = "add_field" =>
             /\ Len(po_fields') = Len(po_fields) + 1
             /\ \A i \in 1..Len(po_fields) : po_fields'[i] = po_fields[i]
             /\ po_fields'[Len(po_fields')].name \notin FieldNames(po_fields)
             /\ po_fields'[Len(po_fields')].name
                   = "Field " \o ToString(Len(po_fields) + 1)
       /\ clicked' = "clear_fields" => Len(po_fields') = 0]_vars

\* fields added after a clear-all
C6_Witness ==
    /\ clicked = "add_field"
    /\ Len(po_fields) = 2
    /\ po_fields[1].name = "Field 1" /\ po_fields[2].name = "Field 2"

\* C7: after a successful Confirm & Save the preview holds at most 5 rows,
\* the most recently inserted first, and its first row carries the values of
\* the last row of the table just saved.
C7_ReadBack ==
    preview.has =>
        /\ Len(preview.rows) <= 5
        /\ Len(preview.rows) = Min(5, Len(db.rows))
        /\ \A q \in 1..Len(preview.rows) :
              \A k \in Range(db.cols) :
                 LET stored == db.rows[Len(db.rows) + 1 - q][k]
                 IN  preview.rows[q][k] = IF stored = NULL THEN NA ELSE stored
        /\ df.rows # << >> =>
              \A k \in Range(df.cols) :
                 preview.rows[1][k] = df.rows[Len(df.rows)].c[k]

\* a save on top of earlier saves, more than five rows stored
C7_Witness ==
    /\ preview.has /\ clicked = "save"
    /\ Len(db.rows) > 5 /\ Len(preview.rows) = 5
    /\ df.rows # << >>

\* C8: an upload replaces the stored document, bytes and filename, and leaves
\* the table and the candidate lists as they were.
C8_UploadKeepsDerived ==
    [][Uploaded =>
         /\ pdf_bytes' = uploader'.bytes
         /\ uploaded_filename' = uploader'.name
         /\ df' = df
         /\ matches' = matches]_vars

\* a document replaced while a table and candidate lists are stored
C8_Witness ==
    /\ uploader.has /\ uploader.name = "empty.pdf"
    /\ pdf_bytes = "" /\ uploaded_filename = "empty.pdf"
    /\ df.has /\ df.rows # << >> /\ matches.has

\* C9: the table the Match stage works on and stores back has a "Matched
\* Item" column; the column is added only when absent, as the last column and
\* with "" in every row, and a column that is present keeps its values.
C9_MatchedItemColumn ==
    [][df'.has =>
         /\ MatchedItem \in Range(df'.cols)
         /\ \A p \in 1..Len(df'.rows) : MatchedItem \in DOMAIN df'.rows[p].c
         /\ (ExtractSucceeded /\ ~matches'.has) =>
               /\ Len(df'.rows) = Len(resp'.body)
               /\ \A p \in 1..Len(df'.rows) :
                     IF \E n \in 1..Len(resp'.body) :
                           \E m \in 1..Len(resp'.body[n]) :
                              resp'.body[n][m][1] = MatchedItem
                     THEN /\ df'.rows[p].c[MatchedItem] = ObjGet(resp'.body[p], MatchedItem)
                          /\ df'.cols = ColumnsOf(resp'.body, << >>)
                     ELSE /\ df'.rows[p].c[MatchedItem] = ""
                          /\ df'.cols = Append(ColumnsOf(resp'.body, << >>), MatchedItem)
         /\ (df.has /\ ~matches'.has /\ clicked' = "download") => df' = df]_vars

\* an extracted table that brought its own Matched Item values
C9_Witness ==
    /\ req.to = "extract" /\ resp.has /\ ~matches.has
    /\ df.has /\ Len(df.rows) = 1
    /\ df.rows[1].c[MatchedItem] = "m"

\* C10: the match-selection step never changes the number of rows of the
\* table: after a run the table has as many rows as the table the step was
\* given (the extracted one, or the stored one when nothing was extracted).
C10_SelectionKeepsRowCount ==
    [][/\ ExtractSucceeded => Len(df'.rows) = Len(resp'.body)
       /\ (df.has /\ (ExtractFailed \/ req'.to = "match" \/ Selected
                      \/ clicked' = "download")) =>
             Len(df'.rows) = Len(df.rows)]_vars

=============================================================================
